---- MODULE Spec2Model ----
(***************************************************************************)
(* CaddyBot backend (src/backend/server.py, src/backend/models.py).        *)
(*                                                                         *)
(* The server is one asyncio process.  Its state is the module-level list  *)
(* `shots`; the four handlers root, chat, save and smart are coroutines    *)
(* run by one event loop, so a handler runs without interleaving up to its *)
(* next `await`.  Only smart awaits (agent.run), so root, chat and save    *)
(* are one step each and smart is two: the call and the resumption.        *)
(*                                                                         *)
(* Texts that the code inspects or builds (messages, replies, prompts,     *)
(* timestamps) are sequences of one-character strings, so that lower(),    *)
(* the `in` substring test, f-string interpolation and isoformat() are     *)
(* computed, not assumed.  Literals that are only passed along (the role,  *)
(* the body of /) are TLA+ strings.  A character outside ASCII is written  *)
(* by its code point: "U+00C9" is one character (so is the grave accent,  *)
(* "U+0060").  The alphabet is printable ASCII and U+00C9, U+00E9, U+0130, *)
(* U+0307, U+212A, U+03A3, U+03C3, U+03C2.                                  *)
(***************************************************************************)
EXTENDS Integers, Sequences, FiniteSets, TLC

VARIABLES
    shots,      \* server.py:21, the module-level list
    reqs,       \* per request slot: endpoint, parsed body, position, receipt time
    resp,       \* per request slot: the HTTP response, once sent
    agent,      \* per request slot: the external agent.run call of a /smart request
    now,        \* the server clock, in microseconds after Epoch
    running     \* the request whose coroutine holds the event loop, or NoReq

vars == <<shots, reqs, resp, agent, now, running>>

(***************************************************************************)
(* Bounds of the model.                                                    *)
(***************************************************************************)
MaxReqs == 3

MaxTimedReqs == 2

MaxFairReqs == 2

MaxWords == 2

MaxArgs == 3

MaxTicks == 2

\* microseconds between two readings of the clock that differ
ClockStep == 500000

Reqs == 1..MaxReqs

NoReq == 0

(***************************************************************************)
(* String literals of server.py, as character sequences.                   *)
(***************************************************************************)
KwClub ==
    <<"c", "l", "u", "b">>

KwDistance ==
    <<"d", "i", "s", "t", "a", "n", "c", "e">>

KwYards ==
    <<"y", "a", "r", "d", "s">>

KwWind ==
    <<"w", "i", "n", "d">>

KwHello ==
    <<"h", "e", "l", "l", "o">>

KwHi ==
    <<"h", "i">>

ClubReply ==
    <<"B", "a", "s", "e", "d", " ", "o", "n", " ", "t", "h", "e", " ", "d", "i", "s", "t", "a", "n", "c", "e", " ", "a", "n", "d", " ", "c", "o", "n", "d", "i", "t", "i", "o", "n", "s", ",", " ", "I", "'", "d", " ", "r", "e", "c", "o", "m", "m", "e", "n", "d", " ", "u", "s", "i", "n", "g", " ", "a", " ", "7", "-", "i", "r", "o", "n", " ", "f", "o", "r", " ", "t", "h", "i", "s", " ", "s", "h", "o", "t", ".">>

DistanceReply ==
    <<"C", "o", "u", "l", "d", " ", "y", "o", "u", " ", "t", "e", "l", "l", " ", "m", "e", " ", "t", "h", "e", " ", "d", "i", "s", "t", "a", "n", "c", "e", " ", "t", "o", " ", "t", "h", "e", " ", "p", "i", "n", " ", "a", "n", "d", " ", "a", "n", "y", " ", "o", "b", "s", "t", "a", "c", "l", "e", "s", " ", "i", "n", " ", "y", "o", "u", "r", " ", "w", "a", "y", "?">>

WindReply ==
    <<"W", "i", "n", "d", " ", "i", "s", " ", "a", " ", "c", "r", "u", "c", "i", "a", "l", " ", "f", "a", "c", "t", "o", "r", ".", " ", "F", "o", "r", " ", "a", " ", "h", "e", "a", "d", "w", "i", "n", "d", ",", " ", "c", "l", "u", "b", " ", "u", "p", ".", " ", "F", "o", "r", " ", "a", " ", "t", "a", "i", "l", "w", "i", "n", "d", ",", " ", "c", "l", "u", "b", " ", "d", "o", "w", "n", ".">>

GreetingReply ==
    <<"H", "e", "l", "l", "o", "!", " ", "I", "'", "m", " ", "y", "o", "u", "r", " ", "A", "I", " ", "g", "o", "l", "f", " ", "c", "a", "d", "d", "y", ".", " ", "H", "o", "w", " ", "c", "a", "n", " ", "I", " ", "h", "e", "l", "p", " ", "i", "m", "p", "r", "o", "v", "e", " ", "y", "o", "u", "r", " ", "g", "a", "m", "e", " ", "t", "o", "d", "a", "y", "?">>

FallbackHead ==
    <<"I", " ", "u", "n", "d", "e", "r", "s", "t", "a", "n", "d", " ", "y", "o", "u", "'", "r", "e", " ", "a", "s", "k", "i", "n", "g", " ", "a", "b", "o", "u", "t", ":", " ", "'">>

FallbackTail ==
    <<"'", ".", " ", "L", "e", "t", " ", "m", "e", " ", "h", "e", "l", "p", " ", "y", "o", "u", " ", "w", "i", "t", "h", " ", "t", "h", "a", "t", " ", "s", "h", "o", "t", " ", "s", "e", "l", "e", "c", "t", "i", "o", "n", ".">>

ErrorHead ==
    <<"E", "r", "r", "o", "r", " ", "p", "r", "o", "c", "e", "s", "s", "i", "n", "g", " ", "r", "e", "q", "u", "e", "s", "t", ":", " ">>

RootReply == [message |-> "CaddyBot API is running"]

(***************************************************************************)
(* str.lower() on the alphabet.  A..Z map to a..z; E-acute (U+00C9) to     *)
(* U+00E9; the Kelvin sign (U+212A) to k; dotted capital I (U+0130) to the *)
(* two characters i, U+0307; capital sigma (U+03A3) to final sigma         *)
(* (U+03C2) when a cased character precedes it, case-ignorable characters  *)
(* skipped, and no cased character follows it likewise, and to U+03C3      *)
(* otherwise.  Every other character is kept.                              *)
(***************************************************************************)
UpperToLower ==
    [A |-> "a", B |-> "b", C |-> "c", D |-> "d", E |-> "e", F |-> "f", G |-> "g",
     H |-> "h", I |-> "i", J |-> "j", K |-> "k", L |-> "l", M |-> "m", N |-> "n",
     O |-> "o", P |-> "p", Q |-> "q", R |-> "r", S |-> "s", T |-> "t", U |-> "u",
     V |-> "v", W |-> "w", X |-> "x", Y |-> "y", Z |-> "z"]

\* the lower-case mapping of one character: one or two characters
LowerChar(c) ==
    CASE c \in DOMAIN UpperToLower -> <<UpperToLower[c]>>
      [] c = "U+00C9" -> <<"U+00E9">>
      [] c = "U+212A" -> <<"k">>
      [] c = "U+0130" -> <<"i", "U+0307">>
      [] OTHER -> <<c>>

Cased(c) ==
    \/ c \in DOMAIN UpperToLower
    \/ \E u \in DOMAIN UpperToLower : UpperToLower[u] = c
    \/ c \in {"U+00C9", "U+00E9", "U+0130", "U+212A", "U+03A3", "U+03C3", "U+03C2"}

\* among ASCII: apostrophe, full stop, colon, circumflex and grave accent (U+0060)
CaseIgnorable(c) == c \in {"'", ".", ":", "^", "U+0060", "U+0307"}

\* whether the capital sigma at s[i] stands in final position
FinalSigma(s, i) ==
    LET before == {j \in 1..(i - 1) : ~ CaseIgnorable(s[j])}
        after  == {j \in (i + 1)..Len(s) : ~ CaseIgnorable(s[j])}
        last   == CHOOSE j \in before : \A k \in before : k <= j
        first  == CHOOSE j \in after : \A k \in after : j <= k
    IN  /\ before # {}
        /\ Cased(s[last])
        /\ after = {} \/ ~ Cased(s[first])

LowerAt(s, i) ==
    IF s[i] = "U+03A3"
    THEN <<IF FinalSigma(s, i) THEN "U+03C2" ELSE "U+03C3">>
    ELSE LowerChar(s[i])

RECURSIVE LowerFrom(_, _)
LowerFrom(s, i) == IF i > Len(s) THEN <<>> ELSE LowerAt(s, i) \o LowerFrom(s, i + 1)

\* Without a dotted capital I every character maps to one character.
lower(s) ==
    IF \A i \in 1..Len(s) : s[i] # "U+0130"
    THEN [i \in 1..Len(s) |-> LowerAt(s, i)[1]]
    ELSE LowerFrom(s, 1)

\* Python's `sub in s` for str: sub occurs as a contiguous slice of s.
Contains(sub, s) ==
    \E i \in 1..(Len(s) - Len(sub) + 1) : SubSeq(s, i, i + Len(sub) - 1) = sub

(***************************************************************************)
(* Faulty variants of the reply text, used to test the properties: the     *)
(* wind test ahead of the club test; the greeting test ahead of the wind   *)
(* test; the fallback echoing the lower-cased text; the keyword tests run  *)
(* on the history together with the current message.                       *)
(***************************************************************************)
response_text_wind_first(request) ==
    LET user_message == lower(request.current_message)
    IN  IF Contains(KwWind, user_message) THEN WindReply
        ELSE IF Contains(KwClub, user_message) THEN ClubReply
        ELSE IF Contains(KwDistance, user_message) \/ Contains(KwYards, user_message)
             THEN DistanceReply
        ELSE IF Contains(KwHello, user_message) \/ Contains(KwHi, user_message)
             THEN GreetingReply
        ELSE FallbackHead \o request.current_message \o FallbackTail

response_text_greeting_first(request) ==
    LET user_message == lower(request.current_message)
    IN  IF Contains(KwClub, user_message) THEN ClubReply
        ELSE IF Contains(KwDistance, user_message) \/ Contains(KwYards, user_message)
             THEN DistanceReply
        ELSE IF Contains(KwHello, user_message) \/ Contains(KwHi, user_message)
             THEN GreetingReply
        ELSE IF Contains(KwWind, user_message) THEN WindReply
        ELSE FallbackHead \o request.current_message \o FallbackTail

response_text_echo_lower(request) ==
    LET user_message == lower(request.current_message)
    IN  IF Contains(KwClub, user_message) THEN ClubReply
        ELSE IF Contains(KwDistance, user_message) \/ Contains(KwYards, user_message)
             THEN DistanceReply
        ELSE IF Contains(KwWind, user_message) THEN WindReply
        ELSE IF Contains(KwHello, user_message) \/ Contains(KwHi, user_message)
             THEN GreetingReply
        ELSE FallbackHead \o user_message \o FallbackTail

response_text_with_history(request) ==
    LET last         == IF request.messages = <<>> THEN <<>>
                        ELSE request.messages[Len(request.messages)].message
        user_message == lower(last \o <<" ">> \o request.current_message)
    IN  IF Contains(KwClub, user_message) THEN ClubReply
        ELSE IF Contains(KwDistance, user_message) \/ Contains(KwYards, user_message)
             THEN DistanceReply
        ELSE IF Contains(KwWind, user_message) THEN WindReply
        ELSE IF Contains(KwHello, user_message) \/ Contains(KwHi, user_message)
             THEN GreetingReply
        ELSE FallbackHead \o request.current_message \o FallbackTail

(***************************************************************************)
(* chat, lines 53-67: the reply text for a parsed ChatRequest.             *)
(***************************************************************************)
response_text(request) ==
    LET user_message == lower(request.current_message)
    IN  IF Contains(KwClub, user_message) THEN ClubReply
        ELSE IF Contains(KwDistance, user_message) \/ Contains(KwYards, user_message)
             THEN DistanceReply
        ELSE IF Contains(KwWind, user_message) THEN WindReply
        ELSE IF Contains(KwHello, user_message) \/ Contains(KwHi, user_message)
             THEN GreetingReply
        ELSE FallbackHead \o request.current_message \o FallbackTail

(***************************************************************************)
(* datetime.datetime.now().isoformat().  The clock `now` counts            *)
(* microseconds after Epoch (2025-01-01T00:00:00 server-local) and stays   *)
(* within the first minute, so only the seconds and microseconds fields    *)
(* vary.  isoformat() leaves the fraction out when microsecond is 0.       *)
(***************************************************************************)
DatePrefix ==
    <<"2", "0", "2", "5", "-", "0", "1", "-", "0", "1", "T", "0", "0", ":", "0", "0", ":">>

Digits == <<"0", "1", "2", "3", "4", "5", "6", "7", "8", "9">>

RECURSIVE Pad(_, _)
Pad(n, w) ==
    IF w = 0 THEN <<>> ELSE Pad(n \div 10, w - 1) \o <<Digits[(n % 10) + 1]>>

isoformat(t) ==
    LET second      == t \div 1000000
        microsecond == t % 1000000
    IN  DatePrefix \o Pad(second, 2)
            \o (IF microsecond = 0 THEN <<>> ELSE <<".">> \o Pad(microsecond, 6))

\* models.py:15-18, as constructed at server.py:69-73
ChatResponse(role, message, timestamp) ==
    [role |-> role, message |-> message, timestamp |-> timestamp]

\* chat, lines 69-73: the response object, built at clock reading t
chat_response(request, t) ==
    ChatResponse("assistant", response_text(request), isoformat(t))

\* Faulty variants of save: the list is rebound to the new shot alone; the shot
\* is appended to a copy; only the new entry is returned.
shots_append_reset(log, request) == <<request>>

shots_append_copy(log, request) == log

save_return_new_only(log) == IF log = <<>> THEN log ELSE <<log[Len(log)]>>

(***************************************************************************)
(* save, lines 77-78: list.append, and the list the handler returns.       *)
(***************************************************************************)
shots_append(log, request) == Append(log, request)

save_return(log) == log

\* Faulty variant of smart: the agent is called without `await` releasing
\* the event loop.
loop_blocked_by_call(r) == r

(***************************************************************************)
(* smart, lines 83-90.  An exception is its class and the arguments it was *)
(* constructed with, each a str or an int.  Exception, KeyError, OSError,  *)
(* BrokenPipeError and ValueError are instances of Exception;              *)
(* asyncio.CancelledError (the pending call or the handler's task was      *)
(* cancelled) and a direct subclass of BaseException are not, and "except  *)
(* Exception" at line 87 lets them through.  str(e) is                     *)
(* BaseException.__str__ unless the class has its own: KeyError shows a    *)
(* single argument by its repr, OSError and its subclasses show errno and  *)
(* strerror, and the file names when given (a BlockingIOError takes a      *)
(* numeric third argument as characters_written, not as a file name).      *)
(***************************************************************************)
StrValue(text) == [type |-> "str", str |-> text, int |-> 0]

IntValue(n) == [type |-> "int", str |-> <<>>, int |-> n]

RECURSIVE NatStr(_)
NatStr(n) ==
    IF n < 10 THEN <<Digits[n + 1]>> ELSE NatStr(n \div 10) \o <<Digits[(n % 10) + 1]>>

IntStr(n) == IF n < 0 THEN <<"-">> \o NatStr(-n) ELSE NatStr(n)

\* repr of a str of printable characters: single quotes, unless the text has a
\* single quote and no double quote; the quote in use and the backslash escaped
RECURSIVE Escaped(_, _)
Escaped(text, quote) ==
    IF Len(text) = 0 THEN <<>>
    ELSE (IF Head(text) \in {"\\", quote} THEN <<"\\", Head(text)>> ELSE <<Head(text)>>)
             \o Escaped(Tail(text), quote)

StrRepr(text) ==
    LET has(c) == \E i \in 1..Len(text) : text[i] = c
        quote  == IF has("'") /\ ~ has("\"") THEN "\"" ELSE "'"
    IN  <<quote>> \o Escaped(text, quote) \o <<quote>>

PyStrOf(v) == IF v.type = "str" THEN v.str ELSE IntStr(v.int)

PyReprOf(v) == IF v.type = "str" THEN StrRepr(v.str) ELSE IntStr(v.int)

RECURSIVE ReprJoin(_)
ReprJoin(args) ==
    IF Len(args) = 0 THEN <<>>
    ELSE IF Len(args) = 1 THEN PyReprOf(args[1])
    ELSE PyReprOf(args[1]) \o <<",", " ">> \o ReprJoin(Tail(args))

TupleRepr(args) ==
    <<"(">> \o ReprJoin(args) \o (IF Len(args) = 1 THEN <<",">> ELSE <<>>) \o <<")">>

BaseExceptionStr(args) ==
    CASE Len(args) = 0 -> <<>>
      [] Len(args) = 1 -> PyStrOf(args[1])
      [] OTHER -> TupleRepr(args)

KeyErrorStr(args) ==
    IF Len(args) = 1 THEN PyReprOf(args[1]) ELSE BaseExceptionStr(args)

\* errno values for which OSError(...) builds a BlockingIOError (Linux:
\* EAGAIN and EWOULDBLOCK, EALREADY, EINPROGRESS)
BlockingErrnos == {11, 114, 115}

\* BlockingIOError takes a numeric third argument as characters_written:
\* the exception then has no file name
CharactersWritten(args) ==
    /\ Len(args) \in 3..5
    /\ args[1].type = "int" /\ args[1].int \in BlockingErrnos
    /\ args[3].type = "int"

\* OSError.__str__ of an exception built from args, written telling whether
\* the third argument was taken as characters_written
OSErrorWith(args, written) ==
    LET errno == <<"[", "E", "r", "r", "n", "o", " ">> \o PyStrOf(args[1])
                     \o <<"]", " ">> \o PyStrOf(args[2])
    IN  CASE Len(args) = 2 -> errno
          [] written -> errno
          [] Len(args) \in {3, 4} -> errno \o <<":", " ">> \o PyReprOf(args[3])
          [] Len(args) = 5 ->
                errno \o <<":", " ">> \o PyReprOf(args[3])
                      \o <<" ", "-", ">", " ">> \o PyReprOf(args[5])
          [] OTHER -> BaseExceptionStr(args)

\* OSError(errno, strerror[, filename[, winerror[, filename2]]])
OSErrorStr(args) == OSErrorWith(args, CharactersWritten(args))

\* BrokenPipeError(...) called by name stays a BrokenPipeError whatever errno
BrokenPipeErrorStr(args) == OSErrorWith(args, FALSE)

PyException(class, args) == [class |-> class, args |-> args]

\* the classes of the model that derive from Exception
ExceptionClasses ==
    {"Exception", "KeyError", "OSError", "BrokenPipeError", "ValueError"}

\* the classes of the model that derive from BaseException only
BaseOnlyClasses == {"CancelledError", "BaseException"}

\* line 87: "except Exception as e" matches e
except_Exception(e) == e.class \in ExceptionClasses

PyStr(e) ==
    CASE e.class = "KeyError" -> KeyErrorStr(e.args)
      [] e.class = "OSError" -> OSErrorStr(e.args)
      [] e.class = "BrokenPipeError" -> BrokenPipeErrorStr(e.args)
      [] OTHER -> BaseExceptionStr(e.args)

Ok200(body) == [status |-> 200, body |-> body]

\* lines 84-86: agent.run returned a result object
smart_on_result(result) == Ok200(result.output)

\* sys.stdout when line 89 runs: open and writable; closed; open and
\* unbuffered on a full device; open and unbuffered on a pipe whose reader
\* is gone
StdoutStates == {"open", "closed", "full", "broken"}

\* line 89: print(...) to a closed sys.stdout raises
\* ValueError('I/O operation on closed file.')
ClosedFile ==
    PyException("ValueError",
        <<StrValue(<<"I", "/", "O", " ", "o", "p", "e", "r", "a", "t", "i", "o", "n", " ", "o", "n", " ", "c", "l", "o", "s", "e", "d", " ", "f", "i", "l", "e", ".">>)>>)

\* line 89: the write fails with ENOSPC, OSError(28, 'No space left on device')
NoSpace ==
    PyException("OSError",
        <<IntValue(28),
          StrValue(<<"N", "o", " ", "s", "p", "a", "c", "e", " ", "l", "e", "f", "t", " ", "o", "n", " ", "d", "e", "v", "i", "c", "e">>)>>)

\* line 89: the write fails with EPIPE, BrokenPipeError(32, 'Broken pipe')
BrokenPipe ==
    PyException("BrokenPipeError",
        <<IntValue(32), StrValue(<<"B", "r", "o", "k", "e", "n", " ", "p", "i", "p", "e">>)>>)

print_raises(stdout) == stdout \in {"closed", "full", "broken"}

\* what print raises when it raises
print_error(stdout) ==
    CASE stdout = "closed" -> ClosedFile
      [] stdout = "full" -> NoSpace
      [] stdout = "broken" -> BrokenPipe

\* exception e leaves smart(): the handler returns nothing to send
Raised(e) == [status |-> 0, raised |-> e]

\* lines 87-90: agent.run raised e.  "except Exception" does not match an e
\* that is not an Exception, and e leaves the handler; otherwise the error is
\* printed, and what print raises leaves the handler; otherwise the error is
\* reported in the body
smart_on_exception(e, stdout) ==
    IF ~except_Exception(e) THEN Raised(e)
    ELSE IF print_raises(stdout) THEN Raised(print_error(stdout))
    ELSE Ok200(ErrorHead \o PyStr(e))

\* line 84: `await` hands the event loop back while the agent call is pending
loop_while_awaiting(r) == NoReq

(***************************************************************************)
(* Inputs.                                                                 *)
(***************************************************************************)
MsgClubWind ==
    <<"W", "h", "a", "t", " ", "C", "L", "U", "B", " ", "a", "n", "d", " ", "w", "h", "a", "t", " ", "w", "i", "n", "d", "?">>

MsgWindDoing ==
    <<"W", "h", "a", "t", "'", "s", " ", "t", "h", "e", " ", "w", "i", "n", "d", " ", "d", "o", "i", "n", "g", "?">>

W_CLUB ==
    <<"C", "L", "U", "B">>

W_Yards ==
    <<"Y", "a", "r", "d", "s">>

W_DISTANCE ==
    <<"D", "i", "s", "t", "a", "n", "c", "e">>

W_Wind ==
    <<"t", "h", "i", "s", " ", "W", "I", "N", "D">>

W_Hello ==
    <<"H", "e", "L", "L", "o">>

W_Hi ==
    <<"H", "i">>

W_this ==
    <<"t", "h", "i", "s">>

W_putt ==
    <<"P", "u", "t", "t">>

W_sp ==
    <<" ">>

\* "H" and dotted capital I; E-acute, "T", E-acute; "A" and capital sigma; the
\* Kelvin sign and "m"
W_HIdot == <<"H", "U+0130">>

W_ETE == <<"U+00C9", "T", "U+00C9">>

W_ASigma == <<"A", "U+03A3">>

W_Km == <<"U+212A", "m">>

Words ==
    {KwClub, W_CLUB, W_DISTANCE, W_Yards, KwWind, W_Wind, W_Hello, KwHi, W_Hi,
     W_this, W_putt, W_sp, MsgClubWind, MsgWindDoing,
     W_HIdot, W_ETE, W_ASigma, W_Km}

\* every text made of at most n words
RECURSIVE Phrases(_)
Phrases(n) ==
    IF n = 0 THEN {<<>>}
    ELSE LET P == Phrases(n - 1) IN P \cup {p \o w : p \in P, w \in Words}

\* models.py:6-9
Message(role, message, timestamp) ==
    [role |-> role, message |-> message, timestamp |-> timestamp]

Histories == {<<>>, <<Message("user", KwClub, isoformat(0))>>}

\* models.py:11-13
ChatRequest(messages, current_message) ==
    [messages |-> messages, current_message |-> current_message]

\* the current_message texts of the server specification
ChatInputs == {<<>>, MsgClubWind, W_this}

\* models.py:32-37, with contact (20-24) and result (26-30)
shotResult(id, intendedDistance, club) ==
    [id |-> id, intendedDistance |-> intendedDistance, club |-> club,
     contact |-> [toe |-> 0, heel |-> 1, top |-> 0, chunk |-> 0],
     result  |-> [right |-> 0, left |-> 2, long |-> 0, short |-> 5]]

ShotInputs ==
    {shotResult(1, 150, <<"7", "i">>), shotResult(1, 90, <<"P", "W">>),
     shotResult(2, 150, <<"7", "i">>)}

Prompts == {KwHi}

AgentOutputs == {W_putt}

\* the exceptions of the server specifications: Exception(), KeyError('429')
\* and CancelledError()
AgentErrors ==
    {PyException("Exception", <<>>),
     PyException("KeyError", <<StrValue(<<"4", "2", "9">>)>>),
     PyException("CancelledError", <<>>)}

\* the exceptions of SmartSpec: each class with at most n arguments among
\* '429', "it's", a text with both quotes and a backslash, 2, -5 and 11
ArgValues ==
    {StrValue(<<"4", "2", "9">>), StrValue(<<"i", "t", "'", "s">>),
     StrValue(<<"'", "\"", "\\">>), IntValue(2), IntValue(-5), IntValue(11)}

RECURSIVE ArgLists(_)
ArgLists(n) ==
    IF n = 0 THEN {<<>>}
    ELSE LET A == ArgLists(n - 1) IN A \cup {Append(a, v) : a \in A, v \in ArgValues}

Exceptions(n) ==
    {PyException(class, args) :
        class \in ExceptionClasses \cup BaseOnlyClasses, args \in ArgLists(n)}

(***************************************************************************)
(* State.                                                                  *)
(***************************************************************************)
\* The handler's parsed argument is `arg`: a ChatRequest, a shotResult, the query
\* parameter `string` of /smart, or nothing.
NoArg == [none |-> TRUE]

IdleReq == [kind |-> "none", arg |-> NoArg, pc |-> "idle", recv |-> 0]

NoResp == [status |-> 0]

AgentIdle == [state |-> "idle"]

Init ==
    /\ shots = <<>>
    /\ reqs = [r \in Reqs |-> IdleReq]
    /\ resp = [r \in Reqs |-> NoResp]
    /\ agent = [r \in Reqs |-> AgentIdle]
    /\ now = 0
    /\ running = NoReq

\* The framework accepts a request, parses its body and schedules the handler.
\* Slots fill in arrival order.
Receive(r, kind, arg) ==
    /\ reqs[r].pc = "idle"
    /\ IF r = 1 THEN TRUE ELSE reqs[r - 1].pc # "idle"
    /\ reqs' = [reqs EXCEPT ![r] =
                    [kind |-> kind, arg |-> arg, pc |-> "received", recv |-> now]]
    /\ UNCHANGED <<shots, resp, agent, now, running>>

ReceiveRoot(r) == Receive(r, "root", NoArg)

ReceiveChat(r) ==
    \E h \in Histories, m \in ChatInputs : Receive(r, "chat", ChatRequest(h, m))

ReceiveSave(r) == \E s \in ShotInputs : Receive(r, "save", s)

ReceiveSmart(r) == \E p \in Prompts : Receive(r, "smart", [string |-> p])

\* The clock read by datetime.now() is naive local time.  It advances,
Tick ==
    /\ now + ClockStep <= MaxTicks * ClockStep
    /\ now' = now + ClockStep
    /\ UNCHANGED <<shots, reqs, resp, agent, running>>

\* and it is set back when daylight-saving time ends or the clock is stepped.
SetBack ==
    /\ now >= ClockStep
    /\ now' = now - ClockStep
    /\ UNCHANGED <<shots, reqs, resp, agent, running>>

Ready(r, kind) ==
    /\ reqs[r].kind = kind
    /\ reqs[r].pc = "received"
    /\ running = NoReq

Finish(r, response) ==
    /\ reqs' = [reqs EXCEPT ![r].pc = "done"]
    /\ resp' = [resp EXCEPT ![r] = response]

\* server.py:36-38
root(r) ==
    /\ Ready(r, "root")
    /\ Finish(r, Ok200(RootReply))
    /\ UNCHANGED <<shots, agent, now, running>>

\* server.py:40-73
chat(r) ==
    /\ Ready(r, "chat")
    /\ Finish(r, Ok200(chat_response(reqs[r].arg, now)))
    /\ UNCHANGED <<shots, agent, now, running>>

\* server.py:75-78
save(r) ==
    /\ Ready(r, "save")
    /\ shots' = shots_append(shots, reqs[r].arg)
    /\ Finish(r, Ok200(save_return(shots')))
    /\ UNCHANGED <<agent, now, running>>

\* server.py:83-84, up to the await: the agent call is issued
smart_await(r) ==
    /\ Ready(r, "smart")
    /\ reqs' = [reqs EXCEPT ![r].pc = "awaiting"]
    /\ agent' = [agent EXCEPT ![r] = [state |-> "pending", prompt |-> reqs[r].arg.string]]
    /\ running' = loop_while_awaiting(r)
    /\ UNCHANGED <<shots, resp, now>>

\* The external agent answers: a result object, or an exception.
AgentReturns(r) ==
    /\ agent[r].state = "pending"
    /\ \E out \in AgentOutputs :
          agent' = [agent EXCEPT ![r] =
                       [state |-> "returned", prompt |-> agent[r].prompt,
                        result |-> [output |-> out]]]
    /\ UNCHANGED <<shots, reqs, resp, now, running>>

Raises(r, errors) ==
    /\ agent[r].state = "pending"
    /\ \E e \in errors :
          agent' = [agent EXCEPT ![r] =
                       [state |-> "raised", prompt |-> agent[r].prompt, error |-> e]]
    /\ UNCHANGED <<shots, reqs, resp, now, running>>

AgentRaises(r) == Raises(r, AgentErrors)

\* server.py:84-90, from the await on: the result is returned, or the
\* exception is handled by lines 87-90; the request is done when the handler
\* returned a value and raised when an exception left it
smart_resume(r) ==
    /\ reqs[r].kind = "smart"
    /\ reqs[r].pc = "awaiting"
    /\ running \in {NoReq, r}
    /\ agent[r].state \in {"returned", "raised"}
    /\ \E stdout \in StdoutStates :
          LET out == IF agent[r].state = "returned"
                     THEN smart_on_result(agent[r].result)
                     ELSE smart_on_exception(agent[r].error, stdout)
          IN  /\ reqs' = [reqs EXCEPT ![r].pc = IF out.status = 200 THEN "done" ELSE "raised"]
              /\ resp' = [resp EXCEPT ![r] = out]
    /\ running' = NoReq
    /\ UNCHANGED <<shots, agent, now>>

Handle(r) ==
    \/ root(r)
    \/ chat(r)
    \/ save(r)
    \/ smart_await(r)
    \/ smart_resume(r)

Serve == \E r \in Reqs : Handle(r)

External == \E r \in Reqs : AgentReturns(r) \/ AgentRaises(r)

Arrive(slots) ==
    \E r \in slots : ReceiveRoot(r) \/ ReceiveChat(r) \/ ReceiveSave(r) \/ ReceiveSmart(r)

(***************************************************************************)
(* Spec: the server with up to MaxReqs requests, the clock standing still. *)
(***************************************************************************)
Next == Arrive(Reqs) \/ Serve \/ External

Spec == Init /\ [][Next]_vars

(***************************************************************************)
(* TimedSpec: the same server with the clock moving, up to MaxTimedReqs    *)
(* requests.                                                               *)
(***************************************************************************)
TimedNext == Arrive(1..MaxTimedReqs) \/ Serve \/ External \/ Tick \/ SetBack

TimedSpec == Init /\ [][TimedNext]_vars

(***************************************************************************)
(* FairSpec: the server with up to MaxFairReqs requests under the event    *)
(* loop's scheduling: a coroutine that is ready to run is run.  Nothing is *)
(* assumed of the clients or of the external agent: it may never answer.   *)
(***************************************************************************)
FairNext == Arrive(1..MaxFairReqs) \/ Serve \/ External

Fairness == \A r \in Reqs : WF_vars(Handle(r))

FairSpec == Init /\ [][FairNext]_vars /\ Fairness

(***************************************************************************)
(* ChatSpec: one /chat request whose current_message is any text of at     *)
(* most MaxWords words, and its handling.                                  *)
(***************************************************************************)
ReceiveChatText ==
    /\ reqs[1].pc = "idle"
    /\ \E h \in Histories, m \in Phrases(MaxWords) : Receive(1, "chat", ChatRequest(h, m))

ChatNext == ReceiveChatText \/ chat(1)

ChatSpec == Init /\ [][ChatNext]_vars

(***************************************************************************)
(* SmartSpec: one /smart request whose agent call returns, or raises any   *)
(* exception of at most MaxArgs arguments, and its handling.               *)
(***************************************************************************)
SmartNext ==
    \/ ReceiveSmart(1)
    \/ smart_await(1)
    \/ AgentReturns(1)
    \/ agent[1].state = "pending" /\ Raises(1, Exceptions(MaxArgs))
    \/ smart_resume(1)

SmartSpec == Init /\ [][SmartNext]_vars

(***************************************************************************)
(* Vocabulary of the properties.                                           *)
(***************************************************************************)
Done(r, kind) == reqs[r].kind = kind /\ reqs[r].pc = "done"

\* the step in which save answers request r
SaveStep(r) ==
    reqs[r].kind = "save" /\ reqs[r].pc = "received" /\ reqs'[r].pc = "done"

IsPrefix(s, t) == Len(s) <= Len(t) /\ SubSeq(t, 1, Len(s)) = s

\* the lower-cased form of s contains kw
Mentions(kw, s) == Contains(kw, lower(s))

Fallback(text) == FallbackHead \o text \o FallbackTail

\* Reading an ISO-8601 timestamp of the first minute after Epoch back into
\* microseconds; -1 when the text is not such a timestamp.
DigitValue(c) == CHOOSE d \in 0..9 : Digits[d + 1] = c

IsDigits(s) == \A i \in 1..Len(s) : \E d \in 0..9 : Digits[d + 1] = s[i]

RECURSIVE Number(_)
Number(s) ==
    IF Len(s) = 0 THEN 0
    ELSE 10 * Number(SubSeq(s, 1, Len(s) - 1)) + DigitValue(s[Len(s)])

fromisoformat(ts) ==
    LET n    == Len(DatePrefix)
        rest == SubSeq(ts, n + 1, Len(ts))
    IN  IF Len(ts) < n \/ SubSeq(ts, 1, n) # DatePrefix THEN -1
        ELSE IF Len(rest) = 2 /\ IsDigits(rest) THEN 1000000 * Number(rest)
        ELSE IF /\ Len(rest) = 9
                /\ rest[3] = "."
                /\ IsDigits(SubSeq(rest, 1, 2))
                /\ IsDigits(SubSeq(rest, 4, 9))
             THEN 1000000 * Number(SubSeq(rest, 1, 2)) + Number(SubSeq(rest, 4, 9))
        ELSE -1

(***************************************************************************)
(* C1.  A save request on log L with shot s returns L followed by s and    *)
(* leaves the log equal to that sequence; ids need not be distinct.        *)
(***************************************************************************)
C1_SaveReturnsLogWithNewShotLast ==
    [][\A r \in Reqs :
          SaveStep(r) =>
              /\ shots' = shots \o <<reqs[r].arg>>
              /\ resp'[r] = [status |-> 200, body |-> shots \o <<reqs[r].arg>>]]_vars

\* two saves of shots with the same id: the second returned both, in order
C1_Witness ==
    \E r1, r2 \in Reqs :
        /\ r1 # r2
        /\ Done(r1, "save") /\ Done(r2, "save")
        /\ reqs[r1].arg.id = reqs[r2].arg.id
        /\ resp[r1].body = <<reqs[r1].arg>>
        /\ resp[r2].body = <<reqs[r1].arg, reqs[r2].arg>>
        /\ shots = resp[r2].body

(***************************************************************************)
(* C2.  The Shot Log is append-only: every step keeps the old log as a     *)
(* prefix of the new one, a save step adds exactly one entry at the end,   *)
(* and every other step (/, /chat, /smart, arrivals, the agent) leaves the *)
(* log unchanged.                                                          *)
(***************************************************************************)
C2_ShotLogAppendOnly ==
    [][/\ IsPrefix(shots, shots')
       /\ \A r \in Reqs : SaveStep(r) => Len(shots') = Len(shots) + 1
       /\ (~ \E r \in Reqs : SaveStep(r)) => shots' = shots]_vars

\* a log of two entries, beside a request of another endpoint that was answered
C2_Witness ==
    /\ Len(shots) = 2
    /\ \E r \in Reqs : reqs[r].pc = "done" /\ reqs[r].kind \in {"root", "chat", "smart"}

(***************************************************************************)
(* C3.  A current_message that contains "club" in any letter case gets the *)
(* 7-iron recommendation, whatever other keywords it contains.             *)
(***************************************************************************)
C3_ClubAlwaysWins ==
    \A r \in Reqs :
        Done(r, "chat") /\ Mentions(KwClub, reqs[r].arg.current_message)
            => resp[r].body.message = ClubReply

\* "What CLUB and what wind?" was answered with the 7-iron reply
C3_Witness ==
    \E r \in Reqs :
        /\ Done(r, "chat")
        /\ reqs[r].arg.current_message = MsgClubWind
        /\ Mentions(KwWind, reqs[r].arg.current_message)
        /\ resp[r].body.message = ClubReply

(***************************************************************************)
(* C4.  Without "club", the reply is the pin-distance question if the      *)
(* message contains "distance" or "yards"; otherwise the wind advice if it *)
(* contains "wind"; otherwise the greeting if it contains "hello" or "hi". *)
(***************************************************************************)
C4_PriorityOrder ==
    \A r \in Reqs :
        Done(r, "chat") /\ ~ Mentions(KwClub, reqs[r].arg.current_message) =>
            LET m        == reqs[r].arg.current_message
                reply    == resp[r].body.message
                distance == Mentions(KwDistance, m) \/ Mentions(KwYards, m)
                wind     == Mentions(KwWind, m)
                greeting == Mentions(KwHello, m) \/ Mentions(KwHi, m)
            IN  /\ distance => reply = DistanceReply
                /\ ~ distance /\ wind => reply = WindReply
                /\ ~ distance /\ ~ wind /\ greeting => reply = GreetingReply

\* a message with "yards", "wind" and "hi" got the pin-distance question
C4_Witness ==
    \E r \in Reqs :
        /\ Done(r, "chat")
        /\ ~ Mentions(KwClub, reqs[r].arg.current_message)
        /\ Mentions(KwYards, reqs[r].arg.current_message)
        /\ Mentions(KwWind, reqs[r].arg.current_message)
        /\ Mentions(KwHi, reqs[r].arg.current_message)
        /\ resp[r].body.message = DistanceReply

(***************************************************************************)
(* C5.  /chat answers every text (the empty one too), and the reply is the *)
(* fallback template around the original text exactly when the message     *)
(* contains none of the six keywords in any letter case.                   *)
(***************************************************************************)
C5_FallbackIffNoKeyword ==
    \A r \in Reqs :
        /\ reqs[r].kind = "chat" /\ reqs[r].pc = "received" => ENABLED chat(r)
        /\ Done(r, "chat") =>
              LET m == reqs[r].arg.current_message
              IN  /\ resp[r].status = 200
                  /\ resp[r].body.message = Fallback(m)
                        <=> ~ \E kw \in {KwClub, KwDistance, KwYards, KwWind, KwHello, KwHi} :
                                Mentions(kw, m)

\* "Putt" was echoed with its capital letter
C5_Witness ==
    \E r \in Reqs :
        /\ Done(r, "chat")
        /\ reqs[r].arg.current_message = <<"P", "u", "t", "t">>
        /\ resp[r].body.message = Fallback(<<"P", "u", "t", "t">>)

(***************************************************************************)
(* C6.  Every /chat response has role "assistant" and a timestamp that is  *)
(* a well-formed reading of the server clock no earlier than the time the  *)
(* request was received.                                                   *)
(***************************************************************************)
C6_AssistantRoleAndFreshTimestamp ==
    \A r \in Reqs :
        Done(r, "chat") =>
            /\ resp[r].body.role = "assistant"
            /\ fromisoformat(resp[r].body.timestamp) >= 0
            /\ fromisoformat(resp[r].body.timestamp) >= reqs[r].recv

(***************************************************************************)
(* C7.  A /smart request whose agent call has answered and whose handler   *)
(* has run on ends with status 200, whatever the agent did: the agent's    *)
(* output unchanged if it returned, "Error processing request: " followed  *)
(* by str(e) if it raised e; no exception leaves the handler.              *)
(***************************************************************************)
C7_EveryFailureCaught ==
    \A r \in Reqs :
        reqs[r].kind = "smart" /\ reqs[r].pc \notin {"idle", "received", "awaiting"} =>
            /\ reqs[r].pc = "done"
            /\ resp[r].status = 200
            /\ agent[r].state = "returned" => resp[r].body = agent[r].result.output
            /\ agent[r].state = "raised" =>
                  resp[r].body = ErrorHead \o PyStr(agent[r].error)

C9_NoSaveLost ==
    LET saved == {r \in Reqs : Done(r, "save")}
    IN  /\ Len(shots) = Cardinality(saved)
        /\ \A r \in saved :
              /\ Len(resp[r].body) >= 1
              /\ IsPrefix(resp[r].body, shots)
              /\ resp[r].body[Len(resp[r].body)] = reqs[r].arg
        /\ \A r1, r2 \in saved : r1 # r2 => Len(resp[r1].body) # Len(resp[r2].body)

\* two saves completed, the later-arrived one first, while a /smart request waits
C9_Witness ==
    \E r1, r2, r3 \in Reqs :
        /\ r1 < r2
        /\ Done(r1, "save") /\ Done(r2, "save")
        /\ Len(resp[r2].body) = 1 /\ Len(resp[r1].body) = 2
        /\ reqs[r3].pc = "awaiting"
        /\ Len(shots) = 2

(***************************************************************************)
(* C10.  Two answered /chat requests with the same current_message have    *)
(* the same role and message text, whatever their histories, the Shot Log  *)
(* and the other requests.                                                 *)
(***************************************************************************)
C10_ReplyDependsOnCurrentMessageOnly ==
    \A r1, r2 \in Reqs :
        /\ Done(r1, "chat") /\ Done(r2, "chat")
        /\ reqs[r1].arg.current_message = reqs[r2].arg.current_message
        => /\ resp[r1].body.role = resp[r2].body.role
           /\ resp[r1].body.message = resp[r2].body.message

\* the same text with and without a history mentioning "club", a shot saved meanwhile
C10_Witness ==
    \E r1, r2 \in Reqs :
        /\ Done(r1, "chat") /\ Done(r2, "chat")
        /\ reqs[r1].arg.current_message = reqs[r2].arg.current_message
        /\ reqs[r1].arg.messages = <<>> /\ reqs[r2].arg.messages # <<>>
        /\ ~ Mentions(KwClub, reqs[r1].arg.current_message)
        /\ Len(shots) = 1

====
